---- MODULE Spec2Model ----
(***************************************************************************)
(* A model of the SPIEGEL RAG system.  The frontend is modelled from its   *)
(* code: the zustand store (useAppStore.ts) driven through the panels that *)
(* call it, the citation renderer of AnalysisPanel.tsx, and the            *)
(* time-interval calculation of SearchPanel.  The backend components are   *)
(* modelled from their specification.                                      *)
(*                                                                         *)
(* The specifications of the module:                                       *)
(*   Spec            the store and the components that drive it            *)
(*   SpecStore       the store's actions called without the components     *)
(*   SpecCite        the citation renderer applied to one markdown block   *)
(*   SpecWindow      the search form and its time-interval calculation     *)
(*   SpecWindowFair  the same, run to completion                           *)
(*   SpecStream      the StreamAccumulator, one event a step               *)
(*   SpecRetrieval   the windowed RetrievalOrchestrator                    *)
(*   SpecRerank      the RelevanceReranker and its call ceiling            *)
(*   SpecFilter      the BooleanFilterEvaluator on one document            *)
(***************************************************************************)
EXTENDS Integers, Sequences, FiniteSets, TLC

VARIABLES
    \* ---- useAppStore.ts state
    activeTab, isSearching, searchError, searchResults, selectedChunkIds,
    isAnalyzing, analysisError, transferredChunks, analysisResult,
    \* ---- requests in flight (awaited apiService.post calls), oldest first
    searchRequests, analysisRequests,
    \* ---- AnalysisResultsDisplay local state (useState)
    selectedChunk,
    \* ---- the store operation that ran last
    lastOp,
    \* ---- the performSearch call made last: whether its request has settled,
    \* ---- and the searchResults its own settling wrote
    latestSearch,
    \* ---- citation renderer: one markdown block, its text node, the chunks prop
    blockTag, nested, node, chunks, parts, rendered, cpc,
    \* ---- time-interval calculation
    use_time_intervals, year_start, year_end, time_interval_size,
    currentStart, intervals, calcResult, wpc,
    \* ---- StreamAccumulator: state, the two buffers, the completion metadata,
    \* ---- and the events handed to it so far
    streamState, reasoningBuffer, answerBuffer, terminalMetadata, streamEvents,
    \* ---- RetrievalOrchestrator, windowed mode: what the index answers per
    \* ---- window, the per-window results in completion order, the final list
    indexAnswers, joined, aggregated,
    \* ---- RelevanceReranker: each candidate's evaluation, the kept chunks per window
    candidates, reranked,
    \* ---- BooleanFilterEvaluator: parsed expression, document, verdict
    expression, document, passes

storeVars == <<activeTab, isSearching, searchError, searchResults, selectedChunkIds,
               isAnalyzing, analysisError, transferredChunks, analysisResult,
               searchRequests, analysisRequests, selectedChunk, lastOp,
               latestSearch>>
citeVars == <<blockTag, nested, node, chunks, parts, rendered, cpc>>
windowVars == <<use_time_intervals, year_start, year_end, time_interval_size,
                currentStart, intervals, calcResult, wpc>>
streamVars == <<streamState, reasoningBuffer, answerBuffer, terminalMetadata, streamEvents>>
orchVars == <<indexAnswers, joined, aggregated>>
rerankVars == <<candidates, reranked>>
filterVars == <<expression, document, passes>>
backendVars == <<streamVars, orchVars, rerankVars, filterVars>>
vars == <<storeVars, citeVars, windowVars, backendVars>>

(***************************************************************************)
(* Bounds of the model.                                                    *)
(***************************************************************************)
\* longest chunk list a search response carries
MaxChunks == 2
\* number of pieces a text node is assembled from
MaxPieces == 3
\* iterations a non-advancing interval loop is followed for
MaxRunaway == 3
\* interval sizes below the slider minimum that are tried
BadSizes == 2
\* events handed to one StreamAccumulator
MaxEvents == 4
\* results requested from the index per window
chunksPerWindow == 2
\* candidates per window before and after reranking
chunksPerWindowInitial == 3
chunksPerWindowFinal == 2
\* ceiling on outstanding LLM scoring calls
maxConcurrentCalls == 2
\* requests of one kind a caller of the bare store leaves outstanding at once
MaxInFlight == 2

(***************************************************************************)
(* Values.  A nullable value is None or Some(v).                           *)
(***************************************************************************)
None == <<>>
Some(v) == <<v>>
Range(s) == {s[i] : i \in 1..Len(s)}
SeqsUpTo(S, n) == UNION {[1..k -> S] : k \in 0..n}

\* what the backend can put into a chunk (content, metadata and scores together)
Contents == {"A", "B"}
\* a chunk as the backend sends it, and as the store keeps it (with its client id)
BackendChunk(c) == [content |-> c]
Chunk(i, c) == [id |-> i, content |-> c]

(***************************************************************************)
(* Text.  A string is a sequence of characters; offsets are 0-based as in  *)
(* JavaScript, so character k of the string sits at position k+1 of the    *)
(* sequence.  "sup1" and "sup2" stand for the superscript digits.          *)
(***************************************************************************)
Digit == {"0", "1", "2", "3", "4", "5", "6", "7", "8", "9"}
Superscript == {"sup1", "sup2", "sup3"}
DigitValue(c) ==
    CASE c = "0" -> 0 [] c = "1" -> 1 [] c = "2" -> 2 [] c = "3" -> 3 [] c = "4" -> 4
      [] c = "5" -> 5 [] c = "6" -> 6 [] c = "7" -> 7 [] c = "8" -> 8 [] c = "9" -> 9

\* node.substring(from, to) with 0-based offsets, to exclusive
substring(s, from, to) == SubSeq(s, from + 1, to)

\* parseInt of a non-empty run of decimal digits
RECURSIVE parseInt(_)
parseInt(ds) ==
    IF Len(ds) = 0 THEN 0
    ELSE 10 * parseInt(SubSeq(ds, 1, Len(ds) - 1)) + DigitValue(ds[Len(ds)])

\* the pieces text nodes are assembled from: whole markers and loose characters
Pieces == { <<"[", "1", "]">>, <<"[", "2", "]">>, <<"[", "3", "]">>, <<"(", "1", ")">>,
            <<"sup1">>, <<"[">>, <<"]">>, <<"0">>, <<"3">>, <<"a">> }
RECURSIVE Flatten(_)
Flatten(ps) == IF Len(ps) = 0 THEN <<>> ELSE Head(ps) \o Flatten(Tail(ps))
Texts == {Flatten(ps) : ps \in SeqsUpTo(Pieces, MaxPieces)}

(***************************************************************************)
(* AnalysisPanel.tsx, processText: const citationRegex = /\[(\d+)\]/g      *)
(***************************************************************************)
\* first offset at or after `from` (0-based) holding no digit, or the length
RECURSIVE DigitsEnd(_, _)
DigitsEnd(s, from) ==
    IF from < Len(s) /\ s[from + 1] \in Digit THEN DigitsEnd(s, from + 1) ELSE from

\* does /\[(\d+)\]/ match at offset i; the match then ends before MatchStop
MatchStop(s, i) == DigitsEnd(s, i + 1) + 1
MatchesAt(s, i) ==
    /\ i < Len(s) /\ s[i + 1] = "["
    /\ DigitsEnd(s, i + 1) > i + 1
    /\ DigitsEnd(s, i + 1) < Len(s)
    /\ s[DigitsEnd(s, i + 1) + 1] = "]"

\* citationRegex.exec(node) with the regex's lastIndex at `lastIndex`:
\* the leftmost match at or after it, or null
citationRegexExec(s, lastIndex) ==
    LET hits == {i \in lastIndex..(Len(s) - 1) : MatchesAt(s, i)}
    IN  IF hits = {} THEN None
        ELSE LET i == CHOOSE h \in hits : \A g \in hits : h <= g
             IN  Some([index |-> i,
                       text  |-> substring(s, i, MatchStop(s, i)),
                       group |-> substring(s, i + 1, MatchStop(s, i) - 1)])

\* arr[k] for a 0-based index k: the element inside the array, else undefined
ArrayAt(arr, k) == IF k >= 0 /\ k < Len(arr) THEN Some(arr[k + 1]) ELSE None

\* (variant: the citation number used as the index itself)
resolveChunk_numberAsIndex(cs, citationNumber) == ArrayAt(cs, citationNumber)
\* chunks[citationNumber - 1]
resolveChunk(cs, citationNumber) == ArrayAt(cs, citationNumber - 1)

TextPart(t) == [type |-> "text", value |-> t]
CitationPart(m, cs) ==
    [type |-> "citation", index |-> m.index, length |-> Len(m.text),
     citationNumber |-> parseInt(m.group),
     chunk |-> resolveChunk(cs, parseInt(m.group))]

\* (variant: the scan resumes on the marker's last character)
nextLastIndex_short(m) == m.index + Len(m.text) - 1
\* the index from which the scan resumes after a match
nextLastIndex(m) == m.index + Len(m.text)

\* the while loop of processText, from lastIndex on, with the parts pushed so far
RECURSIVE processLoop(_, _, _, _)
processLoop(s, cs, lastIndex, pushed) ==
    LET found == citationRegexExec(s, lastIndex)
    IN  IF found = None
        THEN IF lastIndex < Len(s)
             THEN Append(pushed, TextPart(substring(s, lastIndex, Len(s))))
             ELSE pushed
        ELSE LET m == found[1]
                 before == IF m.index > lastIndex
                           THEN Append(pushed, TextPart(substring(s, lastIndex, m.index)))
                           ELSE pushed
             IN  processLoop(s, cs, nextLastIndex(m), Append(before, CitationPart(m, cs)))

\* processText on a string child: parts.length > 0 ? parts : node
processText(s, cs) ==
    LET pushed == processLoop(s, cs, 0, <<>>)
    IN  IF Len(pushed) > 0 THEN pushed ELSE <<TextPart(s)>>

(***************************************************************************)
(* CitationComponent: a plain span when the chunk is missing, else a chip  *)
(* with a tooltip and an onClick handler.                                  *)
(***************************************************************************)
CitationComponent(citationNumber, chunk) ==
    IF chunk = None
    THEN [el |-> "span", label |-> citationNumber, onClick |-> FALSE,
          warning |-> FALSE, shows |-> None]
    ELSE [el |-> "Chip", label |-> citationNumber, onClick |-> TRUE,
          warning |-> FALSE, shows |-> chunk]

PlainText(t) == [el |-> "text", value |-> t]

renderPart(p) ==
    IF p.type = "text" THEN PlainText(p.value)
    ELSE CitationComponent(p.citationNumber, p.chunk)

\* the markdown elements an answer is made of; ReactMarkdown is given a custom
\* renderer for "p" only (const components = { p: ... })
BlockTags == {"p", "li", "h2"}
customComponents == {"p"}

\* one block holding one text node, either as its direct child or inside an
\* inline element (strong, em): React.Children.map(children, processText)
\* hands processText the direct children, and processText returns a node that
\* is not a string as it is
blockParts(tag, isNested, s, cs) ==
    IF tag \in customComponents /\ ~isNested THEN processText(s, cs) ELSE <<TextPart(s)>>

renderBlock(tag, isNested, s, cs) ==
    [i \in 1..Len(blockParts(tag, isNested, s, cs)) |->
        renderPart(blockParts(tag, isNested, s, cs)[i])]


(***************************************************************************)
(* useAppStore.ts                                                          *)
(***************************************************************************)
Tabs == 0..3
SearchTypes == {"standard", "llm-assisted"}
DefaultErrorMessage == "An unexpected error occurred."

\* what an awaited apiService.post can throw: an HTTP error whose body names an
\* error, an HTTP error whose body names none, an Error without a response
\* (network failure), and a value that is neither
Rejections ==
    { [hasResponse |-> TRUE,  dataError |-> Some("Suche fehlgeschlagen"), isError |-> TRUE,  message |-> "Request failed with status code 500"],
      [hasResponse |-> TRUE,  dataError |-> None, isError |-> TRUE,  message |-> "Request failed with status code 500"],
      [hasResponse |-> FALSE, dataError |-> None, isError |-> TRUE,  message |-> "Network Error"],
      [hasResponse |-> FALSE, dataError |-> None, isError |-> FALSE, message |-> ""] }

\* the TypeError raised inside the try block when response.data has no chunks array
MalformedResponse ==
    [hasResponse |-> FALSE, dataError |-> None, isError |-> TRUE,
     message |-> "Cannot read properties of undefined (reading 'map')"]

\* the catch block's choice of message
errorMessageOf(err) ==
    IF err.hasResponse
    THEN IF err.dataError # None /\ err.dataError[1] # "" THEN err.dataError[1]
         ELSE DefaultErrorMessage
    ELSE IF err.isError THEN err.message
    ELSE DefaultErrorMessage

\* response.data.chunks of a search response
SearchResponses == {[i \in 1..Len(f) |-> BackendChunk(f[i])] : f \in SeqsUpTo(Contents, MaxChunks)}

\* response.data.chunks.map((chunk, index) => ({...chunk, id: index + 1}))
chunksWithIds(cs) == [i \in 1..Len(cs) |-> Chunk(i, cs[i].content)]

\* chunksWithIds.map(c => c.id)
idsOf(cs) == [i \in 1..Len(cs) |-> cs[i].id]

\* arr.filter(keep), in array order
includes(arr, x) == \E i \in 1..Len(arr) : arr[i] = x

\* chunksToAnalyze.map(({ id: _id, ...rest }) => rest)
withoutIds(cs) == [i \in 1..Len(cs) |-> BackendChunk(cs[i].content)]

\* (variant: the chunks taken in the order they were selected)
chunksToTransfer_selectionOrder(results, selected) ==
    [i \in 1..Len(selected) |->
        CHOOSE c \in Range(results.chunks) : c.id = selected[i]]
\* state.searchResults.chunks.filter(chunk => state.selectedChunkIds.includes(chunk.id))
chunksToTransfer(results, selected) ==
    LET keep(c) == includes(selected, c.id) IN SelectSeq(results.chunks, keep)

\* (variant: the id is added whether or not it is already selected)
toggled_alwaysAdds(selected, chunkId) == Append(selected, chunkId)
\* the selection after toggleChunkSelection(chunkId)
toggled(selected, chunkId) ==
    IF includes(selected, chunkId)
    THEN LET keep(x) == x # chunkId IN SelectSeq(selected, keep)
    ELSE Append(selected, chunkId)

\* the answers an analysis response can carry: one paragraph of text
Answers == { <<"[", "1", "]">>, <<"a", "[", "2", "]", "[", "3", "]">> }

remove(reqs, k) == SubSeq(reqs, 1, k - 1) \o SubSeq(reqs, k + 1, Len(reqs))

\* the request in flight at position k belongs to the performSearch call made last
isLatest(k) == ~latestSearch.settled /\ k = Len(searchRequests)

(***************************************************************************)
(* What the components render from the store.                              *)
(***************************************************************************)
\* ResultsDisplay shows the selection controls (page.tsx: tab 0 only)
ResultsShown ==
    /\ activeTab = 0
    /\ ~isSearching
    /\ (searchError = None \/ searchError = Some(""))
    /\ searchResults # None

\* AnalysisPanel shows its form (page.tsx: tab 1 only)
AnalysisFormShown == activeTab = 1 /\ Len(transferredChunks) > 0

\* {analysisResult && <AnalysisResultsDisplay result=... chunks={transferredChunks} />}
AnswerShown == AnalysisFormShown /\ analysisResult # None

\* AnalysisResultsDisplay's useState lives as long as the component is mounted
KeepLocalState ==
    selectedChunk' = IF AnswerShown /\ AnswerShown' THEN selectedChunk ELSE None

\* the rendered answer: the chunks prop is the store's transferredChunks
renderedAnswer == renderBlock("p", FALSE, analysisResult[1].answer, transferredChunks)

\* (variant: the badge shows the chunk's client-side id)
transferredSources_byId(cs) == [index \in 0..(Len(cs) - 1) |->
                                   [number |-> cs[index + 1].id, chunk |-> cs[index + 1]]]
\* AnalysisPanel's list of transferred sources: transferredChunks.map((chunk, index) => ...)
\* with the badge {index + 1}; the list is indexed from 0 as the array is
transferredSources(cs) == [index \in 0..(Len(cs) - 1) |->
                              [number |-> index + 1, chunk |-> cs[index + 1]]]

\* ChunkReferenceModal: if (!chunk) return null
ModalOpen == selectedChunk # None /\ selectedChunk[1].chunk # None


(***************************************************************************)
(* The store's actions.  An async action is one step up to its await and   *)
(* one step for the settled request; requests settle in any order.         *)
(***************************************************************************)
\* (variant: the earlier results are left in place while the search runs)
performSearchStart_keepsResults(searchType) ==
    /\ isSearching' = TRUE
    /\ searchError' = None
    /\ analysisResult' = None
    /\ transferredChunks' = <<>>
    /\ searchRequests' = Append(searchRequests, searchType)
    /\ latestSearch' = [settled |-> FALSE, results |-> None]
    /\ lastOp' = "performSearch"
    /\ UNCHANGED <<activeTab, searchResults, selectedChunkIds, isAnalyzing, analysisError,
                   analysisRequests>>
    /\ KeepLocalState
\* performSearch up to `await apiService.post(endpoint, params)`
performSearchStart(searchType) ==
    /\ isSearching' = TRUE
    /\ searchError' = None
    /\ searchResults' = None
    /\ analysisResult' = None
    /\ transferredChunks' = <<>>
    /\ searchRequests' = Append(searchRequests, searchType)
    /\ latestSearch' = [settled |-> FALSE, results |-> None]
    /\ lastOp' = "performSearch"
    /\ UNCHANGED <<activeTab, selectedChunkIds, isAnalyzing, analysisError, analysisRequests>>
    /\ KeepLocalState

\* performSearch after the await, request k answered with `data`
performSearchResolve(k, data) ==
    /\ searchResults' = Some([chunks |-> chunksWithIds(data)])
    /\ isSearching' = FALSE
    /\ selectedChunkIds' = idsOf(chunksWithIds(data))
    /\ searchRequests' = remove(searchRequests, k)
    /\ latestSearch' = IF isLatest(k)
                       THEN [settled |-> TRUE, results |-> Some([chunks |-> chunksWithIds(data)])]
                       ELSE latestSearch
    /\ lastOp' = "performSearch:resolved"
    /\ UNCHANGED <<activeTab, searchError, isAnalyzing, analysisError, transferredChunks,
                   analysisResult, analysisRequests>>
    /\ KeepLocalState

\* performSearch's catch block, request k having thrown `err`
performSearchCatch(k, err) ==
    /\ searchError' = Some(errorMessageOf(err))
    /\ isSearching' = FALSE
    /\ searchRequests' = remove(searchRequests, k)
    /\ latestSearch' = IF isLatest(k)
                       THEN [settled |-> TRUE, results |-> None]
                       ELSE latestSearch
    /\ lastOp' = "performSearch:caught"
    /\ UNCHANGED <<activeTab, searchResults, selectedChunkIds, isAnalyzing, analysisError,
                   transferredChunks, analysisResult, analysisRequests>>
    /\ KeepLocalState

toggleChunkSelection(chunkId) ==
    /\ selectedChunkIds' = toggled(selectedChunkIds, chunkId)
    /\ lastOp' = "toggleChunkSelection"
    /\ UNCHANGED <<activeTab, isSearching, searchError, searchResults, isAnalyzing,
                   analysisError, transferredChunks, analysisResult, searchRequests,
                   analysisRequests>>
    /\ UNCHANGED latestSearch
    /\ KeepLocalState

selectAllChunks ==
    /\ selectedChunkIds' = IF searchResults = None THEN selectedChunkIds
                           ELSE idsOf(searchResults[1].chunks)
    /\ lastOp' = "selectAllChunks"
    /\ UNCHANGED <<activeTab, isSearching, searchError, searchResults, isAnalyzing,
                   analysisError, transferredChunks, analysisResult, searchRequests,
                   analysisRequests>>
    /\ UNCHANGED latestSearch
    /\ KeepLocalState

deselectAllChunks ==
    /\ selectedChunkIds' = <<>>
    /\ lastOp' = "deselectAllChunks"
    /\ UNCHANGED <<activeTab, isSearching, searchError, searchResults, isAnalyzing,
                   analysisError, transferredChunks, analysisResult, searchRequests,
                   analysisRequests>>
    /\ UNCHANGED latestSearch
    /\ KeepLocalState

transferChunksForAnalysis ==
    /\ IF searchResults = None \/ Len(selectedChunkIds) = 0
       THEN UNCHANGED <<transferredChunks, analysisResult, activeTab>>
       ELSE /\ transferredChunks' = chunksToTransfer(searchResults[1], selectedChunkIds)
            /\ analysisResult' = None
            /\ activeTab' = 1
    /\ lastOp' = "transferChunksForAnalysis"
    /\ UNCHANGED <<isSearching, searchError, searchResults, selectedChunkIds, isAnalyzing,
                   analysisError, searchRequests, analysisRequests>>
    /\ UNCHANGED latestSearch
    /\ KeepLocalState

setActiveTab(tabIndex) ==
    /\ activeTab' = tabIndex
    /\ lastOp' = "setActiveTab"
    /\ UNCHANGED <<isSearching, searchError, searchResults, selectedChunkIds, isAnalyzing,
                   analysisError, transferredChunks, analysisResult, searchRequests,
                   analysisRequests>>
    /\ UNCHANGED latestSearch
    /\ KeepLocalState

\* (variant: the previous answer is not cleared when a new analysis starts)
performAnalysisStart_keepsResult ==
    /\ IF Len(transferredChunks) = 0
       THEN /\ analysisError' = Some("Keine Texte zur Analyse uebertragen.")
            /\ UNCHANGED <<isAnalyzing, analysisResult, analysisRequests>>
       ELSE /\ isAnalyzing' = TRUE
            /\ analysisError' = None
            /\ analysisResult' = analysisResult
            /\ analysisRequests' =
                   Append(analysisRequests, [chunks_to_analyze |-> withoutIds(transferredChunks)])
    /\ lastOp' = "performAnalysis"
    /\ UNCHANGED <<activeTab, isSearching, searchError, searchResults, selectedChunkIds,
                   transferredChunks, searchRequests>>
    /\ UNCHANGED latestSearch
    /\ KeepLocalState

\* performAnalysis up to `await apiService.post('/api/search/analyze', payload)`
performAnalysisStart ==
    /\ IF Len(transferredChunks) = 0
       THEN /\ analysisError' = Some("Keine Texte zur Analyse uebertragen.")
            /\ UNCHANGED <<isAnalyzing, analysisResult, analysisRequests>>
       ELSE /\ isAnalyzing' = TRUE
            /\ analysisError' = None
            /\ analysisResult' = None
            /\ analysisRequests' =
                   Append(analysisRequests, [chunks_to_analyze |-> withoutIds(transferredChunks)])
    /\ lastOp' = "performAnalysis"
    /\ UNCHANGED <<activeTab, isSearching, searchError, searchResults, selectedChunkIds,
                   transferredChunks, searchRequests>>
    /\ UNCHANGED latestSearch
    /\ KeepLocalState

\* performAnalysis after the await: the backend answered request k from the
\* chunks that request carried (answeredFrom records them beside response.data)
performAnalysisResolve(k, answer) ==
    /\ analysisResult' = Some([answer |-> answer,
                               answeredFrom |-> analysisRequests[k].chunks_to_analyze])
    /\ isAnalyzing' = FALSE
    /\ analysisRequests' = remove(analysisRequests, k)
    /\ lastOp' = "performAnalysis:resolved"
    /\ UNCHANGED <<activeTab, isSearching, searchError, searchResults, selectedChunkIds,
                   analysisError, transferredChunks, searchRequests>>
    /\ UNCHANGED latestSearch
    /\ KeepLocalState

\* performAnalysis's catch block
performAnalysisCatch(k, err) ==
    /\ analysisError' = Some(errorMessageOf(err))
    /\ isAnalyzing' = FALSE
    /\ analysisRequests' = remove(analysisRequests, k)
    /\ lastOp' = "performAnalysis:caught"
    /\ UNCHANGED <<activeTab, isSearching, searchError, searchResults, selectedChunkIds,
                   transferredChunks, analysisResult, searchRequests>>
    /\ UNCHANGED latestSearch
    /\ KeepLocalState

\* onClick of a citation chip: setSelectedChunk({ chunk, citationNumber })
setSelectedChunk(chunk, citationNumber) ==
    /\ selectedChunk' = Some([chunk |-> chunk, citationNumber |-> citationNumber])
    /\ UNCHANGED <<activeTab, isSearching, searchError, searchResults, selectedChunkIds,
                   isAnalyzing, analysisError, transferredChunks, analysisResult,
                   searchRequests, analysisRequests, lastOp, latestSearch>>

\* onClose of the modal: setSelectedChunk(null)
closeModal ==
    /\ selectedChunk' = None
    /\ UNCHANGED <<activeTab, isSearching, searchError, searchResults, selectedChunkIds,
                   isAnalyzing, analysisError, transferredChunks, analysisResult,
                   searchRequests, analysisRequests, lastOp, latestSearch>>

(***************************************************************************)
(* The application: the components call the store under the conditions     *)
(* they render their controls with.                                        *)
(***************************************************************************)
\* SearchPanel: <Button onClick={handleSearch} disabled={isSearching}>
SearchButton ==
    /\ activeTab = 0 /\ ~isSearching
    /\ \E searchType \in SearchTypes : performSearchStart(searchType)
    /\ UNCHANGED <<citeVars, windowVars, backendVars>>

SearchResponse ==
    /\ \E k \in 1..Len(searchRequests) : \E data \in SearchResponses :
           performSearchResolve(k, data)
    /\ UNCHANGED <<citeVars, windowVars, backendVars>>

SearchFailure ==
    /\ \E k \in 1..Len(searchRequests) : \E err \in Rejections \cup {MalformedResponse} :
           performSearchCatch(k, err)
    /\ UNCHANGED <<citeVars, windowVars, backendVars>>

\* ResultsDisplay: the checkbox of a displayed chunk
ChunkCheckbox ==
    /\ ResultsShown
    /\ \E i \in 1..Len(searchResults[1].chunks) :
           toggleChunkSelection(searchResults[1].chunks[i].id)
    /\ UNCHANGED <<citeVars, windowVars, backendVars>>

\* ResultsDisplay: onClick={() => allSelected || someSelected ? deselectAllChunks() : selectAllChunks()}
SelectAllButton ==
    /\ ResultsShown
    /\ Len(selectedChunkIds) = 0
    /\ selectAllChunks
    /\ UNCHANGED <<citeVars, windowVars, backendVars>>

DeselectAllButton ==
    /\ ResultsShown
    /\ Len(selectedChunkIds) > 0
    /\ deselectAllChunks
    /\ UNCHANGED <<citeVars, windowVars, backendVars>>

\* ResultsDisplay: <Button onClick={transferChunksForAnalysis} disabled={selectedChunkIds.length === 0}>
TransferButton ==
    /\ ResultsShown
    /\ Len(selectedChunkIds) # 0
    /\ transferChunksForAnalysis
    /\ UNCHANGED <<citeVars, windowVars, backendVars>>

\* page.tsx: <Tabs value={activeTab} onChange={handleTabChange}>
TabChange ==
    /\ \E tabIndex \in Tabs : tabIndex # activeTab /\ setActiveTab(tabIndex)
    /\ UNCHANGED <<citeVars, windowVars, backendVars>>

\* AnalysisPanel: <Button onClick={handleAnalyze} disabled={isAnalyzing}>
AnalyzeButton ==
    /\ AnalysisFormShown /\ ~isAnalyzing
    /\ performAnalysisStart
    /\ UNCHANGED <<citeVars, windowVars, backendVars>>

AnalysisResponse ==
    /\ \E k \in 1..Len(analysisRequests) : \E answer \in Answers :
           performAnalysisResolve(k, answer)
    /\ UNCHANGED <<citeVars, windowVars, backendVars>>

AnalysisFailure ==
    /\ \E k \in 1..Len(analysisRequests) : \E err \in Rejections :
           performAnalysisCatch(k, err)
    /\ UNCHANGED <<citeVars, windowVars, backendVars>>

\* a click on one of the rendered answer's chips
CitationClick ==
    /\ AnswerShown
    /\ \E i \in 1..Len(renderedAnswer) :
           /\ renderedAnswer[i].el # "text"
           /\ renderedAnswer[i].onClick
           /\ setSelectedChunk(renderedAnswer[i].shows, renderedAnswer[i].label)
    /\ UNCHANGED <<citeVars, windowVars, backendVars>>

ModalClose ==
    /\ ModalOpen
    /\ closeModal
    /\ UNCHANGED <<citeVars, windowVars, backendVars>>

\* the values the variables of the other specifications rest at
CiteIdle ==
    /\ blockTag = "p" /\ nested = FALSE /\ node = <<>> /\ chunks = <<>>
    /\ parts = <<>> /\ rendered = <<>> /\ cpc = "idle"
\* the search form as the store creates it.  updateSearchFormState writes
\* nothing but the form and no other store action reads it, so the form's
\* changes are followed in SpecWindow and the form rests here elsewhere
WindowIdle ==
    /\ use_time_intervals = FALSE /\ year_start = 1960 /\ year_end = 1970
    /\ time_interval_size = 5 /\ currentStart = 1960 /\ intervals = <<>>
    /\ calcResult = None /\ wpc = "idle"

\* a StreamAccumulator before its first event
StreamIdle ==
    /\ streamState = "Idle" /\ reasoningBuffer = <<>> /\ answerBuffer = <<>>
    /\ terminalMetadata = None /\ streamEvents = <<>>
OrchIdle == indexAnswers = <<>> /\ joined = <<>> /\ aggregated = None
RerankIdle == candidates = <<>> /\ reranked = <<>>
FilterIdle == expression = None /\ document = None /\ passes = None
BackendIdle == StreamIdle /\ OrchIdle /\ RerankIdle /\ FilterIdle

\* useAppStore's initial state
StoreInit ==
    /\ activeTab = 0
    /\ isSearching = FALSE
    /\ searchError = None
    /\ searchResults = None
    /\ selectedChunkIds = <<>>
    /\ isAnalyzing = FALSE
    /\ analysisError = None
    /\ transferredChunks = <<>>
    /\ analysisResult = None
    /\ searchRequests = <<>>
    /\ analysisRequests = <<>>
    /\ selectedChunk = None
    /\ lastOp = "create"
    /\ latestSearch = [settled |-> TRUE, results |-> None]

Init == StoreInit /\ CiteIdle /\ WindowIdle /\ BackendIdle

Next ==
    \/ SearchButton \/ SearchResponse \/ SearchFailure
    \/ ChunkCheckbox \/ SelectAllButton \/ DeselectAllButton \/ TransferButton
    \/ TabChange
    \/ AnalyzeButton \/ AnalysisResponse \/ AnalysisFailure
    \/ CitationClick \/ ModalClose

Spec == Init /\ [][Next]_vars


(***************************************************************************)
(* SpecStore: the store's search, transfer and analysis actions on their   *)
(* own, called in any order without the conditions the components put on   *)
(* their controls, so calls of performSearch and of performAnalysis        *)
(* overlap.                                                                *)
(***************************************************************************)
CallPerformSearch ==
    /\ Len(searchRequests) < MaxInFlight
    /\ \E searchType \in SearchTypes : performSearchStart(searchType)
    /\ UNCHANGED <<citeVars, windowVars, backendVars>>

CallTransferChunksForAnalysis ==
    transferChunksForAnalysis /\ UNCHANGED <<citeVars, windowVars, backendVars>>

CallPerformAnalysis ==
    /\ Len(analysisRequests) < MaxInFlight
    /\ performAnalysisStart
    /\ UNCHANGED <<citeVars, windowVars, backendVars>>

NextStore ==
    \/ CallPerformSearch \/ SearchResponse \/ SearchFailure
    \/ CallTransferChunksForAnalysis
    \/ CallPerformAnalysis \/ AnalysisResponse \/ AnalysisFailure

SpecStore == Init /\ [][NextStore]_vars


(***************************************************************************)
(* SpecCite: the renderer applied to one block of a parsed answer.         *)
(***************************************************************************)
\* the chunk lists the chunks prop can hold: the lists a transfer can produce
RECURSIVE SubSeqs(_)
SubSeqs(q) ==
    IF Len(q) = 0 THEN {<<>>}
    ELSE SubSeqs(Tail(q)) \cup {<<Head(q)>> \o t : t \in SubSeqs(Tail(q))}
ChunkLists == UNION {SubSeqs(chunksWithIds(data)) : data \in SearchResponses}

CiteInit ==
    /\ blockTag \in BlockTags
    /\ nested \in BOOLEAN
    /\ node \in Texts
    /\ chunks \in ChunkLists
    /\ parts = <<>>
    /\ rendered = <<>>
    /\ cpc = "parsed"

\* ReactMarkdown renders the block with `components`
RenderBlock ==
    /\ cpc = "parsed"
    /\ parts' = blockParts(blockTag, nested, node, chunks)
    /\ rendered' = renderBlock(blockTag, nested, node, chunks)
    /\ cpc' = "rendered"
    /\ UNCHANGED <<blockTag, nested, node, chunks, storeVars, windowVars, backendVars>>

InitCite == StoreInit /\ CiteInit /\ WindowIdle /\ BackendIdle
NextCite == RenderBlock
SpecCite == InitCite /\ [][NextCite]_vars

(***************************************************************************)
(* SearchPanel: timeIntervalCalculation and llmTimeIntervalCalculation     *)
(* (the same code over time_interval_size and                              *)
(* llm_assisted_time_interval_size), one loop iteration a step.            *)
(***************************************************************************)
\* the year range slider: min={1948} max={1979}
YearMin == 1948
YearMax == 1979
\* the interval size slider: min={1} max={10}
SizeMin == 1
SizeMax == 10
Years == YearMin..YearMax
Sizes == (SizeMin - BadSizes)..SizeMax

DigitChar(d) ==
    CASE d = 0 -> "0" [] d = 1 -> "1" [] d = 2 -> "2" [] d = 3 -> "3" [] d = 4 -> "4"
      [] d = 5 -> "5" [] d = 6 -> "6" [] d = 7 -> "7" [] d = 8 -> "8" [] d = 9 -> "9"

\* `${n}` for an integer n
RECURSIVE NatToString(_)
NatToString(n) ==
    IF n < 10 THEN <<DigitChar(n)>> ELSE NatToString(n \div 10) \o <<DigitChar(n % 10)>>
toString(n) == IF n < 0 THEN <<"-">> \o NatToString(-n) ELSE NatToString(n)

\* `${currentStart}-${currentEnd}`
intervalLabel(start, end) == toString(start) \o <<"-">> \o toString(end)

\* (variant: the larger of the two)
min_larger(a, b) == IF a <= b THEN b ELSE a
min(a, b) == IF a <= b THEN a ELSE b

\* (variant: the window's end taken one year too far)
currentEndOf_exclusive(start, size, yearEnd) == min(start + size, yearEnd)
\* (variant: the window's end not clamped to year_end)
currentEndOf_unclamped(start, size, yearEnd) == start + size - 1
\* Math.min(currentStart + time_interval_size - 1, year_end)
currentEndOf(start, size, yearEnd) == min(start + size - 1, yearEnd)

\* (variant: the quotient rounded down)
ceilDiv_floor(span, size) == IF size >= 1 THEN span \div size ELSE 0
\* Math.ceil(span / size) for span >= 1: a division by zero gives Infinity
ceilDiv(span, size) ==
    IF size >= 1 THEN (span + size - 1) \div size
    ELSE IF size = 0 THEN <<"Infinity">>
    ELSE 0 - (span \div (0 - size))

WindowInit ==
    /\ use_time_intervals \in BOOLEAN
    /\ year_start \in Years
    /\ year_end \in Years
    /\ time_interval_size \in Sizes
    /\ currentStart = year_start
    /\ intervals = <<>>
    /\ calcResult = None
    /\ wpc = "memo"

\* the memo up to the loop: the two early returns
calcBegin ==
    /\ wpc = "memo"
    /\ IF ~use_time_intervals
       THEN calcResult' = Some([kind |-> "null"]) /\ wpc' = "done"
       ELSE IF year_start > year_end
       THEN /\ calcResult' = Some([kind |-> "message",
                                   text |-> "Startjahr muss vor Endjahr liegen."])
            /\ wpc' = "done"
       ELSE calcResult' = None /\ wpc' = "loop"
    /\ currentStart' = year_start
    /\ intervals' = <<>>
    /\ UNCHANGED <<use_time_intervals, year_start, year_end, time_interval_size,
                   storeVars, citeVars, backendVars>>

\* (variant: the next window starts on the last year of the previous one)
calcIterate_noAdvance ==
    /\ wpc = "loop"
    /\ currentStart <= year_end
    /\ Len(intervals) < MaxRunaway
    /\ intervals' = Append(intervals,
           intervalLabel(currentStart,
                         currentEndOf(currentStart, time_interval_size, year_end)))
    /\ currentStart' = currentEndOf(currentStart, time_interval_size, year_end)
    /\ UNCHANGED <<use_time_intervals, year_start, year_end, time_interval_size,
                   calcResult, wpc, storeVars, citeVars, backendVars>>

\* one iteration of while (currentStart <= year_end); a loop that does not
\* advance is followed for MaxRunaway iterations
calcIterate ==
    /\ wpc = "loop"
    /\ currentStart <= year_end
    /\ (time_interval_size >= SizeMin \/ Len(intervals) < MaxRunaway)
    /\ intervals' = Append(intervals,
           intervalLabel(currentStart,
                         currentEndOf(currentStart, time_interval_size, year_end)))
    /\ currentStart' = currentEndOf(currentStart, time_interval_size, year_end) + 1
    /\ UNCHANGED <<use_time_intervals, year_start, year_end, time_interval_size,
                   calcResult, wpc, storeVars, citeVars, backendVars>>

\* the loop's exit and the returned object
calcReturn ==
    /\ wpc = "loop"
    /\ ~(currentStart <= year_end)
    /\ calcResult' = Some([kind |-> "object",
                           span |-> year_end - year_start + 1,
                           num_intervals |-> ceilDiv(year_end - year_start + 1,
                                                     time_interval_size),
                           size |-> time_interval_size,
                           intervals |-> intervals])
    /\ wpc' = "done"
    /\ UNCHANGED <<use_time_intervals, year_start, year_end, time_interval_size,
                   currentStart, intervals, storeVars, citeVars, backendVars>>

\* the form fields the calculation reads
FormFields == {"use_time_intervals", "year_start", "year_end", "time_interval_size"}
\* the values a control can give a field
FormValues(name) ==
    IF name = "use_time_intervals" THEN BOOLEAN
    ELSE IF name = "time_interval_size" THEN Sizes
    ELSE Years

\* updateSearchFormState({ [name]: value }): searchFormState is replaced by a
\* copy with the one field changed; nothing else of the store changes
updateSearchFormState(name, value) ==
    /\ use_time_intervals' = IF name = "use_time_intervals" THEN value ELSE use_time_intervals
    /\ year_start' = IF name = "year_start" THEN value ELSE year_start
    /\ year_end' = IF name = "year_end" THEN value ELSE year_end
    /\ time_interval_size' = IF name = "time_interval_size" THEN value ELSE time_interval_size
    /\ UNCHANGED storeVars

\* SearchPanel: a form control changes a field (handleCheckboxChange,
\* handleSliderChange).  The handler runs between two renders, never inside
\* the memo, and may call the store more than once before the next render
\* (the year slider sets year_start, then year_end); formState being a new
\* object, the memo discards its value and runs again in that render
FormChange ==
    /\ wpc \in {"memo", "done"}
    /\ \E name \in FormFields : \E value \in FormValues(name) :
           updateSearchFormState(name, value)
    /\ calcResult' = None
    /\ currentStart' = year_start'
    /\ intervals' = <<>>
    /\ wpc' = "memo"
    /\ UNCHANGED <<citeVars, backendVars>>

InitWindow == StoreInit /\ CiteIdle /\ WindowInit /\ BackendIdle
NextWindow == calcBegin \/ calcIterate \/ calcReturn \/ FormChange
SpecWindow == InitWindow /\ [][NextWindow]_vars
\* the calculation is synchronous code inside useMemo: once begun it runs on
SpecWindowFair == SpecWindow /\ WF_vars(calcBegin \/ calcIterate \/ calcReturn)


(***************************************************************************)
(* StreamAccumulator: Idle -> Streaming -> Completed | Failed.  One event  *)
(* of the model's stream is consumed per step.                             *)
(***************************************************************************)
\* the text fragments a delta event carries
Fragments == { <<"a">>, <<"b", "c">> }
\* the usage metadata a completed event carries
Usages == { "usage" }

DeltaTypes == {"reasoning-delta", "output-delta"}
Event(type, payload) == [type |-> type, payload |-> payload]

Terminal(st) == st \in {"Completed", "Failed"}

\* (variant: every delta lands in the answer buffer)
bufferOf_answerOnly(type) == "answer"
\* the buffer an event's channel owns
bufferOf(type) ==
    IF type \in {"reasoning-delta", "reasoning-done"} THEN "reasoning" ELSE "answer"

\* the event is added to the record of the stream with what became of it
logged(ev, outcome) ==
    streamEvents' = Append(streamEvents, [event |-> ev, outcome |-> outcome])

\* an event after a terminal one: rejected, nothing changes
rejectEvent(ev) ==
    /\ logged(ev, "rejected")
    /\ UNCHANGED <<streamState, reasoningBuffer, answerBuffer, terminalMetadata>>

\* StreamProtocolError: the stream is marked Failed, the partial buffers stay
protocolError(ev) ==
    /\ streamState' = "Failed"
    /\ logged(ev, "protocol-error")
    /\ UNCHANGED <<reasoningBuffer, answerBuffer, terminalMetadata>>

\* a *-delta event appends its fragment to the matching buffer
onDelta(ev) ==
    IF Terminal(streamState) THEN rejectEvent(ev)
    ELSE /\ streamState' = "Streaming"
         /\ reasoningBuffer' = IF bufferOf(ev.type) = "reasoning"
                               THEN reasoningBuffer \o ev.payload ELSE reasoningBuffer
         /\ answerBuffer' = IF bufferOf(ev.type) = "answer"
                            THEN answerBuffer \o ev.payload ELSE answerBuffer
         /\ logged(ev, "applied")
         /\ UNCHANGED terminalMetadata

\* a *-done event finalizes its buffer: the payload must equal the
\* concatenation of the channel's deltas; the overall state does not change
onDone(ev) ==
    IF Terminal(streamState) THEN rejectEvent(ev)
    ELSE IF ev.payload = (IF bufferOf(ev.type) = "reasoning" THEN reasoningBuffer
                          ELSE answerBuffer)
    THEN /\ logged(ev, "applied")
         /\ UNCHANGED <<streamState, reasoningBuffer, answerBuffer, terminalMetadata>>
    ELSE protocolError(ev)

\* (variant: only a Completed stream rejects a completed event)
onCompleted_afterFailed(ev) ==
    IF streamState = "Completed" THEN rejectEvent(ev)
    ELSE /\ streamState' = "Completed"
         /\ terminalMetadata' = Some(ev.payload)
         /\ logged(ev, "applied")
         /\ UNCHANGED <<reasoningBuffer, answerBuffer>>
\* a completed event moves to Completed and freezes both buffers
onCompleted(ev) ==
    IF Terminal(streamState) THEN rejectEvent(ev)
    ELSE /\ streamState' = "Completed"
         /\ terminalMetadata' = Some(ev.payload)
         /\ logged(ev, "applied")
         /\ UNCHANGED <<reasoningBuffer, answerBuffer>>

\* an error event moves to Failed; the partial buffers are retained
onError(ev) ==
    IF Terminal(streamState) THEN rejectEvent(ev)
    ELSE /\ streamState' = "Failed"
         /\ logged(ev, "applied")
         /\ UNCHANGED <<reasoningBuffer, answerBuffer, terminalMetadata>>

ReasoningDelta ==
    /\ Len(streamEvents) < MaxEvents
    /\ \E f \in Fragments : onDelta(Event("reasoning-delta", f))
    /\ UNCHANGED <<storeVars, citeVars, windowVars, orchVars, rerankVars, filterVars>>
OutputDelta ==
    /\ Len(streamEvents) < MaxEvents
    /\ \E f \in Fragments : onDelta(Event("output-delta", f))
    /\ UNCHANGED <<storeVars, citeVars, windowVars, orchVars, rerankVars, filterVars>>
\* the model sends the text it streamed on the channel, or a text that differs
ReasoningDone ==
    /\ Len(streamEvents) < MaxEvents
    /\ \E payload \in {reasoningBuffer, reasoningBuffer \o <<"a">>} :
           onDone(Event("reasoning-done", payload))
    /\ UNCHANGED <<storeVars, citeVars, windowVars, orchVars, rerankVars, filterVars>>
OutputDone ==
    /\ Len(streamEvents) < MaxEvents
    /\ \E payload \in {answerBuffer, answerBuffer \o <<"a">>} :
           onDone(Event("output-done", payload))
    /\ UNCHANGED <<storeVars, citeVars, windowVars, orchVars, rerankVars, filterVars>>
CompletedEvent ==
    /\ Len(streamEvents) < MaxEvents
    /\ \E u \in Usages : onCompleted(Event("completed", u))
    /\ UNCHANGED <<storeVars, citeVars, windowVars, orchVars, rerankVars, filterVars>>
ErrorEvent ==
    /\ Len(streamEvents) < MaxEvents
    /\ onError(Event("error", "stream error"))
    /\ UNCHANGED <<storeVars, citeVars, windowVars, orchVars, rerankVars, filterVars>>

InitStream == StoreInit /\ CiteIdle /\ WindowIdle /\ BackendIdle
NextStream ==
    \/ ReasoningDelta \/ OutputDelta \/ ReasoningDone \/ OutputDone
    \/ CompletedEvent \/ ErrorEvent
SpecStream == InitStream /\ [][NextStream]_vars


(***************************************************************************)
(* RetrievalOrchestrator, windowed mode: one similarity-index query per    *)
(* window, run concurrently, joined, then aggregated.                      *)
(***************************************************************************)
\* start years of the windows of 1960-1974 in 5-year windows
OrchWindows == <<1960, 1965, 1970>>
\* vectorScore in hundredths
VectorScores == {50, 90}

\* the chunks of window w as the index returned them, each with its sort key:
\* window start year ascending, then vectorScore descending
windowChunks(w) ==
    [i \in 1..Len(indexAnswers[w]) |->
        [window |-> OrchWindows[w], position |-> i, vectorScore |-> indexAnswers[w][i],
         sortKey |-> <<OrchWindows[w], 0 - indexAnswers[w][i]>>]]

\* a precedes b in the documented order
keyBefore(a, b) ==
    \/ a.sortKey[1] < b.sortKey[1]
    \/ a.sortKey[1] = b.sortKey[1] /\ a.sortKey[2] < b.sortKey[2]

\* a stable sort by sort key
RECURSIVE sortByKey(_)
sortByKey(cs) ==
    IF Len(cs) = 0 THEN <<>>
    ELSE LET rest == sortByKey(SubSeq(cs, 1, Len(cs) - 1))
             x == cs[Len(cs)]
             k == Cardinality({i \in 1..Len(rest) : ~keyBefore(x, rest[i])})
         IN  SubSeq(rest, 1, k) \o <<x>> \o SubSeq(rest, k + 1, Len(rest))

\* (variant: the per-window results appended in completion order)
aggregate_completionOrder(js) == Flatten([i \in 1..Len(js) |-> js[i].chunks])
\* sort after join
aggregate(js) == sortByKey(Flatten([i \in 1..Len(js) |-> js[i].chunks]))

JoinedWindows == {joined[i].window : i \in 1..Len(joined)}

\* the query of one window returns
QueryCompletes ==
    /\ \E w \in (1..Len(OrchWindows)) \ JoinedWindows :
           joined' = Append(joined, [window |-> w, failed |-> FALSE, chunks |-> windowChunks(w)])
    /\ UNCHANGED <<indexAnswers, aggregated>>
    /\ UNCHANGED <<storeVars, citeVars, windowVars, streamVars, rerankVars, filterVars>>
\* the query of one window fails or times out: that window contributes nothing
QueryFails ==
    /\ \E w \in (1..Len(OrchWindows)) \ JoinedWindows :
           joined' = Append(joined, [window |-> w, failed |-> TRUE, chunks |-> <<>>])
    /\ UNCHANGED <<indexAnswers, aggregated>>
    /\ UNCHANGED <<storeVars, citeVars, windowVars, streamVars, rerankVars, filterVars>>
\* all queries have settled: the aggregated list is produced
AggregateResults ==
    /\ JoinedWindows = 1..Len(OrchWindows)
    /\ aggregated = None
    /\ aggregated' = Some(aggregate(joined))
    /\ UNCHANGED <<indexAnswers, joined>>
    /\ UNCHANGED <<storeVars, citeVars, windowVars, streamVars, rerankVars, filterVars>>

InitRetrieval ==
    /\ StoreInit /\ CiteIdle /\ WindowIdle /\ StreamIdle /\ RerankIdle /\ FilterIdle
    /\ indexAnswers \in [1..Len(OrchWindows) -> SeqsUpTo(VectorScores, chunksPerWindow)]
    /\ joined = <<>>
    /\ aggregated = None
NextRetrieval == QueryCompletes \/ QueryFails \/ AggregateResults
SpecRetrieval == InitRetrieval /\ [][NextRetrieval]_vars


(***************************************************************************)
(* RelevanceReranker: every candidate of every window is scored by its own *)
(* LLM call, at most maxConcurrentCalls of them outstanding; a window is   *)
(* trimmed once all its candidates have settled.                           *)
(***************************************************************************)
\* the windows being reranked: one of a first request, one of a second
RerankWindows == 1..2
\* relevance scores the evaluation prompt asks for (0-10)
LlmScores == {3, 7}
\* vectorScore of the candidate at a position of its window's list
candidateVectorScore(i) == IF i % 2 = 1 THEN 50 ELSE 90
Candidate(i) ==
    [position |-> i, vectorScore |-> candidateVectorScore(i), status |-> "pending", llmScore |-> None]

\* LLM calls outstanding across all windows and requests
outstanding ==
    Cardinality({<<w, i>> \in RerankWindows \X (1..chunksPerWindowInitial) :
                    i <= Len(candidates[w]) /\ candidates[w][i].status = "calling"})
\* (variant: a call is started while the ceiling is already reached)
slotFree_offByOne == outstanding <= maxConcurrentCalls
\* the counting semaphore has a free slot
slotFree == outstanding < maxConcurrentCalls

settle(w, i, status, llmScore) ==
    candidates' = [candidates EXCEPT ![w][i].status = status, ![w][i].llmScore = llmScore]

\* a candidate's evaluation is started
StartScoring ==
    /\ slotFree
    /\ \E w \in RerankWindows : \E i \in 1..Len(candidates[w]) :
           /\ candidates[w][i].status = "pending"
           /\ settle(w, i, "calling", None)
    /\ UNCHANGED reranked
    /\ UNCHANGED <<storeVars, citeVars, windowVars, streamVars, orchVars, filterVars>>
\* the LLM's reply carries a score
ScoreReturned ==
    /\ \E w \in RerankWindows : \E i \in 1..Len(candidates[w]) : \E sc \in LlmScores :
           /\ candidates[w][i].status = "calling"
           /\ settle(w, i, "scored", Some(sc))
    /\ UNCHANGED reranked
    /\ UNCHANGED <<storeVars, citeVars, windowVars, streamVars, orchVars, filterVars>>
\* RerankParseError, or the call failed: the candidate is dropped
ScoreUnparsable ==
    /\ \E w \in RerankWindows : \E i \in 1..Len(candidates[w]) :
           /\ candidates[w][i].status = "calling"
           /\ settle(w, i, "dropped", None)
    /\ UNCHANGED reranked
    /\ UNCHANGED <<storeVars, citeVars, windowVars, streamVars, orchVars, filterVars>>

\* the scored candidates of a window with their sort key: LLM score
\* descending, vectorScore as tiebreaker
scoredOf(w) ==
    LET isScored(c) == c.status = "scored"
        cs == SelectSeq(candidates[w], isScored)
    IN  [i \in 1..Len(cs) |->
            [position |-> cs[i].position, vectorScore |-> cs[i].vectorScore,
             llmScore |-> cs[i].llmScore[1],
             sortKey |-> <<0 - cs[i].llmScore[1], 0 - cs[i].vectorScore>>]]
\* (variant: the window is not trimmed)
keepTop_all(cs) == cs
\* the top chunksPerWindowFinal of a sorted list
keepTop(cs) == SubSeq(cs, 1, min(Len(cs), chunksPerWindowFinal))

\* all candidates of a window have settled: sort, trim
RerankWindow ==
    /\ \E w \in RerankWindows :
           /\ reranked[w] = None
           /\ \A i \in 1..Len(candidates[w]) : candidates[w][i].status \in {"scored", "dropped"}
           /\ reranked' = [reranked EXCEPT ![w] = Some(keepTop(sortByKey(scoredOf(w))))]
    /\ UNCHANGED candidates
    /\ UNCHANGED <<storeVars, citeVars, windowVars, streamVars, orchVars, filterVars>>

InitRerank ==
    /\ StoreInit /\ CiteIdle /\ WindowIdle /\ StreamIdle /\ OrchIdle /\ FilterIdle
    /\ \E n \in [RerankWindows -> 1..chunksPerWindowInitial] :
           candidates = [w \in RerankWindows |-> [i \in 1..n[w] |-> Candidate(i)]]
    /\ reranked = [w \in RerankWindows |-> None]
NextRerank == StartScoring \/ ScoreReturned \/ ScoreUnparsable \/ RerankWindow
SpecRerank == InitRerank /\ [][NextRerank]_vars


(***************************************************************************)
(* BooleanFilterEvaluator: a parsed expression (MUST, SHOULD, MUST_NOT     *)
(* term sets and the fields to search) evaluated against one document.     *)
(***************************************************************************)
\* lowercase terms, standing for mauer, berlin, ddr
Terms == { <<"m", "a">>, <<"b", "e">>, <<"d", "d">> }
FieldNames == {"Text", "Artikeltitel"}
FieldTexts == { <<>>, <<"M", "a">>, <<"b", "e", "m", "a">>, <<"d", "d", "b">>, <<"m", "B", "e">> }

lower(c) ==
    CASE c = "M" -> "m" [] c = "B" -> "b" [] c = "D" -> "d" [] OTHER -> c

\* case-insensitive substring search from offset i on
RECURSIVE containsFrom(_, _, _)
containsFrom(text, term, i) ==
    IF i + Len(term) > Len(text) THEN FALSE
    ELSE IF [k \in 1..Len(term) |-> lower(text[i + k])] = term THEN TRUE
    ELSE containsFrom(text, term, i + 1)

\* the term is found in at least one selected field
found(term, doc, fields) == \E f \in fields : containsFrom(doc[f], term, 0)

RECURSIVE allFound(_, _, _)
allFound(terms, doc, fields) ==
    IF terms = {} THEN TRUE
    ELSE LET t == CHOOSE x \in terms : TRUE
         IN  IF found(t, doc, fields) THEN allFound(terms \ {t}, doc, fields) ELSE FALSE
RECURSIVE anyFound(_, _, _)
anyFound(terms, doc, fields) ==
    IF terms = {} THEN FALSE
    ELSE LET t == CHOOSE x \in terms : TRUE
         IN  IF found(t, doc, fields) THEN TRUE ELSE anyFound(terms \ {t}, doc, fields)

\* (variant: an empty SHOULD set is treated like any other)
matches_shouldRequired(expr, doc) ==
    /\ allFound(expr.must, doc, expr.fields)
    /\ anyFound(expr.should, doc, expr.fields)
    /\ ~anyFound(expr.mustNot, doc, expr.fields)
\* matches(document)
matches(expr, doc) ==
    /\ allFound(expr.must, doc, expr.fields)
    /\ (expr.should = {} \/ anyFound(expr.should, doc, expr.fields))
    /\ ~anyFound(expr.mustNot, doc, expr.fields)

\* the document is evaluated
Evaluate ==
    /\ passes = None
    /\ passes' = Some(matches(expression, document))
    /\ UNCHANGED <<expression, document>>
    /\ UNCHANGED <<storeVars, citeVars, windowVars, streamVars, orchVars, rerankVars>>

\* the term sets of a parsed expression are disjoint
InitFilter ==
    /\ StoreInit /\ CiteIdle /\ WindowIdle /\ StreamIdle /\ OrchIdle /\ RerankIdle
    /\ \E role \in [Terms -> {"must", "should", "mustNot", "absent"}] :
       \E fields \in (SUBSET FieldNames) \ {{}} :
           expression = [must    |-> {t \in Terms : role[t] = "must"},
                         should  |-> {t \in Terms : role[t] = "should"},
                         mustNot |-> {t \in Terms : role[t] = "mustNot"},
                         fields  |-> fields]
    /\ document \in [FieldNames -> FieldTexts]
    /\ passes = None
NextFilter == Evaluate
SpecFilter == InitFilter /\ [][NextFilter]_vars


(***************************************************************************)
(* Properties.                                                             *)
(***************************************************************************)
\* the windows a returned interval list denotes, read back from its labels
DashAt(label) == CHOOSE i \in 2..Len(label) : label[i] = "-" /\ \A j \in 2..(i - 1) : label[j] # "-"
WindowOf(label) ==
    [start |-> parseInt(SubSeq(label, 1, DashAt(label) - 1)),
     end   |-> parseInt(SubSeq(label, DashAt(label) + 1, Len(label)))]
Windows == [i \in 1..Len(intervals) |-> WindowOf(intervals[i])]

ValidRange == year_start <= year_end /\ time_interval_size >= 1

\* C3: for yearStart <= yearEnd and size >= 1 the planner returns windows that
\* start at yearStart, are contiguous (windows[i].end + 1 = windows[i+1].start),
\* are non-empty and disjoint, and end at yearEnd, so that every year of the
\* range lies in exactly one window.
C3_WindowsPartitionRange ==
    (wpc = "done" /\ use_time_intervals /\ ValidRange) =>
        /\ calcResult # None /\ calcResult[1].kind = "object"
        /\ calcResult[1].intervals = intervals
        /\ Len(intervals) >= 1
        /\ Windows[1].start = year_start
        /\ Windows[Len(intervals)].end = year_end
        /\ \A i \in 1..Len(intervals) : Windows[i].start <= Windows[i].end
        /\ \A i \in 1..(Len(intervals) - 1) : Windows[i].end + 1 = Windows[i + 1].start
        /\ \A y \in year_start..year_end :
               Cardinality({i \in 1..Len(intervals) :
                               Windows[i].start <= y /\ y <= Windows[i].end}) = 1

\* the example of the claim: (1960, 1975, 5) has been planned
C3_Witness ==
    /\ wpc = "done" /\ use_time_intervals
    /\ year_start = 1960 /\ year_end = 1975 /\ time_interval_size = 5
    /\ intervals = << intervalLabel(1960, 1964), intervalLabel(1965, 1969),
                      intervalLabel(1970, 1974), intervalLabel(1975, 1975) >>

\* C4: whenever yearStart > yearEnd or size < 1, planning fails with an error
\* and produces no window: the interval list stays empty, and the calculation
\* ends with the error message as its result.
C4_InvalidRangeFails ==
    (use_time_intervals /\ ~ValidRange) =>
        /\ intervals = <<>>
        /\ wpc = "done" => (calcResult # None /\ calcResult[1].kind = "message")


\* ---- citation markers as the documented detection would find them ----
\* a marker of the form open digits close starting at offset i
MarkerAt(s, i, open, close) ==
    /\ i < Len(s) /\ s[i + 1] = open
    /\ DigitsEnd(s, i + 1) > i + 1
    /\ DigitsEnd(s, i + 1) < Len(s)
    /\ s[DigitsEnd(s, i + 1) + 1] = close
\* first offset at or after `from` holding no superscript digit
RECURSIVE SuperscriptEnd(_, _)
SuperscriptEnd(s, from) ==
    IF from < Len(s) /\ s[from + 1] \in Superscript THEN SuperscriptEnd(s, from + 1) ELSE from
\* the spans <<offset, length>> of the markers of one notation
NotationSpans(s, notation) ==
    CASE notation = "bracketed" ->
           {<<i, DigitsEnd(s, i + 1) + 1 - i>> : i \in {j \in 0..(Len(s) - 1) : MarkerAt(s, j, "[", "]")}}
      [] notation = "parenthesized" ->
           {<<i, DigitsEnd(s, i + 1) + 1 - i>> : i \in {j \in 0..(Len(s) - 1) : MarkerAt(s, j, "(", ")")}}
      [] notation = "superscript" ->
           {<<i, SuperscriptEnd(s, i) - i>> :
               i \in {j \in 0..(Len(s) - 1) :
                        s[j + 1] \in Superscript /\ (j = 0 \/ s[j] \notin Superscript)}}
Notations == {"bracketed", "parenthesized", "superscript"}
NotationCount(s, notation) == Cardinality(NotationSpans(s, notation))
\* the notations detection may select: one with the highest count, the
\* bracketed one whenever it is among them
DominantNotations(s) ==
    LET top == {n \in Notations : \A o \in Notations : NotationCount(s, n) >= NotationCount(s, o)}
    IN  IF "bracketed" \in top THEN {"bracketed"} ELSE top

\* the spans of the citations a list of parts holds
CitationSpans(ps) ==
    {<<ps[i].index, ps[i].length>> : i \in {j \in 1..Len(ps) : ps[j].type = "citation"}}
CitationIndexes == {i \in 1..Len(parts) : parts[i].type = "citation"}

\* a run of digits without its leading zeros
RECURSIVE StripZeros(_)
StripZeros(ds) == IF Len(ds) > 1 /\ Head(ds) = "0" THEN StripZeros(Tail(ds)) ELSE ds

\* the block's text node reached processText
Processed == cpc = "rendered" /\ blockTag \in customComponents /\ ~nested

\* C2: every citation found carries the number its marker spells, resolves to
\* chunks[n-1] when 1 <= n <= length(chunks) and to no chunk otherwise (n = 0
\* and n > length(chunks) included); a resolved citation is rendered as a
\* clickable chip showing that chunk, an unresolved one as a plain span
\* without a click handler.
C2_CitationResolution ==
    cpc = "rendered" =>
        \A i \in CitationIndexes :
            LET n == parts[i].citationNumber
                digits == substring(node, parts[i].index + 1,
                                    parts[i].index + parts[i].length - 1)
            IN  /\ toString(n) = StripZeros(digits)
                /\ rendered[i].label = n
                /\ IF 1 <= n /\ n <= Len(chunks)
                   THEN /\ parts[i].chunk = Some(chunks[n])
                        /\ rendered[i].el = "Chip" /\ rendered[i].onClick
                        /\ rendered[i].shows = Some(chunks[n])
                   ELSE /\ parts[i].chunk = None
                        /\ rendered[i].el = "span" /\ ~rendered[i].onClick

\* a rendered text holding a resolved citation, one beyond the list and [0]
C2_Witness ==
    /\ cpc = "rendered" /\ Len(chunks) >= 1
    /\ \E i, j \in CitationIndexes :
           /\ parts[i].chunk # None
           /\ parts[j].citationNumber > Len(chunks) /\ parts[j].chunk = None

\* C5: the citations extracted from a text are the markers of its dominant
\* notation: the notation (bracketed, parenthesized, superscript) with the
\* highest count over the text, the bracketed one on a tie.
C5_DominantNotationExtracted ==
    Processed => \E n \in DominantNotations(node) : CitationSpans(parts) = NotationSpans(node, n)

\* C6: every numbered citation of the answer whose chunk exists is rendered as
\* an interactive citation, whatever element holds it (paragraph, list item,
\* header) and also inside a nested inline element.
C6_CitationsInteractiveEverywhere ==
    cpc = "rendered" =>
        \A sp \in NotationSpans(node, "bracketed") :
            LET n == parseInt(substring(node, sp[1] + 1, sp[1] + sp[2] - 1))
            IN  resolveChunk(chunks, n) # None =>
                    \E k \in 1..Len(rendered) :
                        /\ rendered[k].el = "Chip" /\ rendered[k].onClick
                        /\ rendered[k].label = n

\* the text the parts stand for: text parts as they are, citations as the
\* span of the node they were matched at
RECURSIVE Reassemble(_, _)
Reassemble(ps, s) ==
    IF Len(ps) = 0 THEN <<>>
    ELSE (IF Head(ps).type = "text" THEN Head(ps).value
          ELSE substring(s, Head(ps).index, Head(ps).index + Head(ps).length))
         \o Reassemble(Tail(ps), s)

\* C7: the text segments and the matched marker spans, concatenated in the
\* order emitted, reproduce the text exactly; the citations lie inside the
\* text, in increasing offset order, and do not overlap.
C7_SplitPreservesText ==
    cpc = "rendered" =>
        /\ Reassemble(parts, node) = node
        /\ \A i \in CitationIndexes :
               /\ parts[i].index >= 0 /\ parts[i].length >= 3
               /\ parts[i].index + parts[i].length <= Len(node)
        /\ \A i, j \in CitationIndexes :
               i < j => parts[i].index + parts[i].length <= parts[j].index

\* a text split into citation, text and citation
C7_Witness ==
    /\ Processed
    /\ Cardinality(CitationIndexes) >= 2
    /\ \E i \in 1..Len(parts) : parts[i].type = "text"


\* the numbers the citations of the block carry, and whether they skip one:
\* some number below a cited one is not cited itself
CitedNumbers == {parts[i].citationNumber : i \in CitationIndexes}
SkipsNumber == \E n \in CitedNumbers : \E m \in 1..(n - 1) : m \notin CitedNumbers

\* C11: an answer whose citation numbers are non-sequential ([1], [3] with no
\* [2]) is flagged, and its text is left as it is: the rendering carries a
\* warning and the parts still reassemble to the text.
C11_NonSequentialFlagged ==
    (Processed /\ SkipsNumber) =>
        /\ Reassemble(parts, node) = node
        /\ \E i \in 1..Len(rendered) : rendered[i].el # "text" /\ rendered[i].warning

\* ---- the store and its components ----
\* C1: whenever an analysis answer is displayed, the chunk list its citations
\* are resolved against (the chunks prop, transferredChunks) is, chunk for
\* chunk and in the same order, the list that was sent in the request the
\* answer came from.
C1_CitationsResolveAgainstSentChunks ==
    AnswerShown => withoutIds(transferredChunks) = analysisResult[1].answeredFrom

\* the open modal shows the chunk at position citationNumber-1 of the chunk list
ModalShowsListedChunk ==
    ModalOpen =>
        /\ AnswerShown
        /\ selectedChunk[1].citationNumber >= 1
        /\ selectedChunk[1].citationNumber <= Len(transferredChunks)
        /\ selectedChunk[1].chunk = Some(transferredChunks[selectedChunk[1].citationNumber])

\* a displayed citation whose chunk does not exist is plain text, carries no
\* click handler and has a warning indicator
InvalidCitationsWarn ==
    AnswerShown =>
        \A i \in 1..Len(renderedAnswer) :
            (renderedAnswer[i].el # "text" /\ renderedAnswer[i].shows = None) =>
                /\ renderedAnswer[i].el = "span"
                /\ ~renderedAnswer[i].onClick
                /\ renderedAnswer[i].warning

\* C8: the reference modal is never open for a citation whose chunk does not
\* exist (an open modal shows the chunk at position citationNumber-1 of the
\* chunk list), and an invalid citation is rendered as plain text with a
\* warning indicator.
C8_ModalAndInvalidCitations == ModalShowsListedChunk /\ InvalidCitationsWarn

\* the chunks of the search results whose id is selected, in result order
SelectedInResultOrder ==
    LET cs  == searchResults[1].chunks
        idx == {i \in 1..Len(cs) : cs[i].id \in Range(selectedChunkIds)}
        nth(k) == CHOOSE i \in idx : Cardinality({j \in idx : j < i}) = k - 1
    IN  [k \in 1..Cardinality(idx) |-> cs[nth(k)]]

\* C9: right after transferChunksForAnalysis with a non-empty selection,
\* transferredChunks is exactly the chunks of searchResults whose id is
\* selected, each once, in search-result order whatever the selection order.
C9_TransferIsSelectionInResultOrder ==
    (lastOp = "transferChunksForAnalysis" /\ Len(selectedChunkIds) > 0) =>
        /\ searchResults # None
        /\ transferredChunks = SelectedInResultOrder

\* a transfer of two chunks that were selected in the reverse of result order
C9_Witness ==
    /\ lastOp = "transferChunksForAnalysis"
    /\ selectedChunkIds = <<2, 1>>
    /\ Len(transferredChunks) = 2
    /\ transferredChunks[1].content # transferredChunks[2].content

\* C10: when the request of performSearch rejects, or its response cannot be
\* processed, the store ends with a non-null searchError, isSearching = false
\* and searchResults = null.
C10_SearchFailsGracefully ==
    lastOp = "performSearch:caught" =>
        /\ searchError # None
        /\ isSearching = FALSE
        /\ searchResults = None

\* a search whose response could not be processed, after an earlier search
\* had succeeded (its selection is still in the store)
C10_Witness ==
    /\ lastOp = "performSearch:caught"
    /\ searchError = Some(MalformedResponse.message)
    /\ Len(selectedChunkIds) > 0


\* C12: after a failed analysis request the store holds no answer and an
\* error: analysisResult is null, analysisError is non-null, isAnalyzing is
\* false, and no answer is displayed.
C12_FailedAnalysisShowsNoAnswer ==
    lastOp = "performAnalysis:caught" =>
        /\ analysisResult = None
        /\ analysisError # None
        /\ isAnalyzing = FALSE
        /\ ~AnswerShown

\* an analysis that failed with the backend's own error message while the
\* analysis panel is on screen
C12_Witness ==
    /\ lastOp = "performAnalysis:caught"
    /\ AnalysisFormShown
    /\ analysisError # None /\ analysisError[1] # DefaultErrorMessage


\* ---- StreamAccumulator ----
\* C13: once a terminal event has been observed (the state is Completed or
\* Failed), every later event is rejected and leaves the state, the reasoning
\* buffer, the answer buffer and the metadata unchanged; in particular a
\* completed event after Failed does not move the state to Completed.
C13_TerminalFreezes ==
    [][Terminal(streamState) =>
          /\ streamState' = streamState
          /\ reasoningBuffer' = reasoningBuffer
          /\ answerBuffer' = answerBuffer
          /\ terminalMetadata' = terminalMetadata
          /\ streamEvents' # streamEvents =>
                 streamEvents'[Len(streamEvents')].outcome = "rejected"]_vars

\* a stream that failed with text in its answer buffer and was then handed a
\* completed event and a delta
C13_Witness ==
    /\ streamState = "Failed"
    /\ answerBuffer # <<>> /\ terminalMetadata = None
    /\ \E i, j \in 1..Len(streamEvents) :
           /\ streamEvents[i].event.type = "completed"
           /\ streamEvents[i].outcome = "rejected"
           /\ streamEvents[j].event.type \in DeltaTypes
           /\ streamEvents[j].outcome = "rejected"

\* the events received before the stream's first terminal event
LiveEvents ==
    {i \in 1..Len(streamEvents) :
        \A j \in 1..(i - 1) :
            /\ streamEvents[j].event.type \notin {"completed", "error"}
            /\ streamEvents[j].outcome # "protocol-error"}
\* the fragments of the live events of one type, concatenated in stream order
RECURSIVE FragmentsFrom(_, _)
FragmentsFrom(type, i) ==
    IF i > Len(streamEvents) THEN <<>>
    ELSE (IF i \in LiveEvents /\ streamEvents[i].event.type = type
          THEN streamEvents[i].event.payload ELSE <<>>)
         \o FragmentsFrom(type, i + 1)

\* C14: whatever the interleaving of the two channels, the reasoning buffer is
\* the in-order concatenation of exactly the reasoning-delta fragments
\* received and the answer buffer that of exactly the output-delta fragments.
C14_ChannelsRoutedIndependently ==
    /\ reasoningBuffer = FragmentsFrom("reasoning-delta", 1)
    /\ answerBuffer = FragmentsFrom("output-delta", 1)

\* output, reasoning, output, reasoning: two fragments in each buffer
C14_Witness ==
    /\ Len(streamEvents) = 4
    /\ streamEvents[1].event = Event("output-delta", <<"a">>)
    /\ streamEvents[2].event = Event("reasoning-delta", <<"b", "c">>)
    /\ streamEvents[3].event = Event("output-delta", <<"b", "c">>)
    /\ streamEvents[4].event = Event("reasoning-delta", <<"a">>)
    /\ reasoningBuffer = <<"b", "c", "a">>
    /\ answerBuffer = <<"a", "b", "c">>


\* ---- RetrievalOrchestrator ----
\* the chunks the settled queries contributed
JoinedChunks == UNION {Range(joined[i].chunks) : i \in 1..Len(joined)}

\* C15: the aggregated list holds each retrieved chunk once, ordered by window
\* start year ascending and by descending vectorScore within a window (chunks
\* of equal score in the order the index returned them), so the list and every
\* ordinalIndex are the same whichever query finished first.
C15_AggregationOrderIsDeterministic ==
    aggregated # None =>
        LET a == aggregated[1]
        IN  /\ Range(a) = JoinedChunks
            /\ Len(a) = Cardinality(JoinedChunks)
            /\ \A i, j \in 1..Len(a) :
                   i < j =>
                       \/ a[i].window < a[j].window
                       \/ /\ a[i].window = a[j].window
                          /\ \/ a[i].vectorScore > a[j].vectorScore
                             \/ /\ a[i].vectorScore = a[j].vectorScore
                                /\ a[i].position < a[j].position

\* the last window's query finished first and the first window's last, and
\* the first window returned its chunks lowest score first
C15_Witness ==
    /\ aggregated # None
    /\ Len(joined) = 3
    /\ joined[1].window = 3 /\ joined[3].window = 1
    /\ \A i \in 1..3 : ~joined[i].failed
    /\ indexAnswers[1] = <<50, 90>>
    /\ Len(indexAnswers[3]) > 0


\* ---- RelevanceReranker ----
\* the candidates of a window whose score could be parsed
Parsable(w) == {i \in 1..Len(candidates[w]) : candidates[w][i].status = "scored"}
\* candidate i of window w ranks strictly above candidate j
RanksAbove(w, i, j) ==
    \/ candidates[w][i].llmScore[1] > candidates[w][j].llmScore[1]
    \/ /\ candidates[w][i].llmScore[1] = candidates[w][j].llmScore[1]
       /\ candidates[w][i].vectorScore > candidates[w][j].vectorScore

\* C16: the output of a window with N candidates and cap K has exactly
\* min(N', K) chunks, N' the candidates left after the unparsable ones are
\* dropped; they are parsable candidates of that window, none twice, sorted by
\* LLM score descending with vectorScore as tiebreaker, and no candidate left
\* out ranks above one that was kept.
C16_RerankKeepsTopK ==
    \A w \in RerankWindows :
        reranked[w] # None =>
            LET out == reranked[w][1]
                kept == {out[k].position : k \in 1..Len(out)}
            IN  /\ Len(out) = min(Cardinality(Parsable(w)), chunksPerWindowFinal)
                /\ kept \subseteq Parsable(w)
                /\ Cardinality(kept) = Len(out)
                /\ \A k \in 1..Len(out) :
                       /\ out[k].llmScore = candidates[w][out[k].position].llmScore[1]
                       /\ out[k].vectorScore = candidates[w][out[k].position].vectorScore
                /\ \A k \in 1..(Len(out) - 1) :
                       ~RanksAbove(w, out[k + 1].position, out[k].position)
                /\ \A i \in Parsable(w) \ kept : \A j \in kept : ~RanksAbove(w, i, j)

\* a window of three candidates, all scored alike, trimmed to the two with
\* the higher vectorScore first, while a candidate of the other window was
\* dropped
C16_Witness ==
    /\ Len(candidates[1]) = 3 /\ Parsable(1) = {1, 2, 3}
    /\ reranked[1] # None
    /\ Len(reranked[1][1]) = 2
    /\ reranked[1][1][1].position = 2 /\ reranked[1][1][2].position = 1
    /\ \E i \in 1..Len(candidates[2]) : candidates[2][i].status = "dropped"

\* C17: in every reachable state the number of outstanding LLM scoring calls,
\* over all windows and requests, is at most the configured ceiling.
C17_OutstandingCallsWithinCeiling == outstanding <= maxConcurrentCalls

\* the ceiling is reached by calls of both windows while a candidate waits
C17_Witness ==
    /\ outstanding = maxConcurrentCalls
    /\ \A w \in RerankWindows : \E i \in 1..Len(candidates[w]) : candidates[w][i].status = "calling"
    /\ \E w \in RerankWindows : \E i \in 1..Len(candidates[w]) : candidates[w][i].status = "pending"


\* ---- BooleanFilterEvaluator ----
\* the term occurs in the text at some offset, letter case aside
Occurs(text, term) ==
    \E i \in 0..(Len(text) - Len(term)) :
        \A k \in 1..Len(term) :
            \/ text[i + k] = term[k]
            \/ <<text[i + k], term[k]>> \in {<<"M", "m">>, <<"B", "b">>, <<"D", "d">>}
OccursInSelected(term) == \E f \in expression.fields : Occurs(document[f], term)

\* C18: a document passes iff every MUST term is found in at least one
\* selected field, and, when SHOULD is non-empty, at least one SHOULD term is
\* found in at least one selected field, and no MUST_NOT term is found in any
\* selected field.
C18_FilterEvaluationRule ==
    passes # None =>
        (passes[1] <=>
            /\ \A t \in expression.must : OccursInSelected(t)
            /\ expression.should # {} => \E t \in expression.should : OccursInSelected(t)
            /\ \A t \in expression.mustNot : ~OccursInSelected(t))

\* a document passing an expression without SHOULD terms: its MUST term is
\* found only in the title, as part of a longer word, and its MUST_NOT term
\* occurs only in a field that is not selected
C18_Witness ==
    /\ passes = Some(TRUE)
    /\ expression.must = {<<"m", "a">>} /\ expression.should = {}
    /\ expression.mustNot = {<<"d", "d">>}
    /\ expression.fields = {"Artikeltitel"}
    /\ document["Artikeltitel"] = <<"b", "e", "m", "a">>
    /\ document["Text"] = <<"d", "d", "b">>


\* ---- the window loop ----
\* C19: for yearStart <= yearEnd and size >= 1 every iteration of the window
\* loop is entered with currentStart <= yearEnd and strictly increases
\* currentStart; once currentStart > yearEnd the loop is left without another
\* window; at most yearEnd - yearStart + 1 windows are produced; and the loop,
\* once entered, ends.
C19_WindowLoopTerminates ==
    /\ [][(wpc = "loop" /\ ValidRange /\ intervals' # intervals) =>
              (currentStart <= year_end /\ currentStart' > currentStart)]_vars
    /\ [][(wpc = "loop" /\ ValidRange /\ currentStart > year_end) =>
              (wpc' = "done" /\ intervals' = intervals)]_vars
    /\ [](ValidRange => Len(intervals) <= year_end - year_start + 1)
    /\ ((wpc = "loop" /\ ValidRange) ~> (wpc = "done"))

\* the longest run: windows of one year over a range of several years
C19_Witness ==
    /\ wpc = "done" /\ use_time_intervals
    /\ time_interval_size = 1 /\ year_end >= year_start + 3
    /\ Len(intervals) = year_end - year_start + 1
    /\ currentStart = year_end + 1


\* the number of years window i of the returned list spans
SpanOf(i) == Windows[i].end - Windows[i].start + 1

\* C20: of the windows planned for yearStart <= yearEnd and size >= 1, every
\* one but the last spans exactly size years; the last spans at least one
\* year and at most size.
C20_OnlyLastWindowShorter ==
    (wpc = "done" /\ use_time_intervals /\ ValidRange) =>
        /\ Len(intervals) >= 1
        /\ \A i \in 1..(Len(intervals) - 1) : SpanOf(i) = time_interval_size
        /\ SpanOf(Len(intervals)) >= 1
        /\ SpanOf(Len(intervals)) <= time_interval_size

\* 1960-1969 in windows of four years: two full windows and a last one of two
C20_Witness ==
    /\ wpc = "done" /\ use_time_intervals
    /\ year_start = 1960 /\ year_end = 1969 /\ time_interval_size = 4
    /\ Len(intervals) = 3
    /\ SpanOf(1) = 4 /\ SpanOf(2) = 4 /\ SpanOf(3) = 2


\* C21: whenever size >= yearEnd - yearStart + 1 (and yearStart <= yearEnd),
\* planning yields exactly one window, and it is [yearStart, yearEnd]: the
\* time-window strategy then queries the very range the standard one does.
C21_OneWindowWhenSizeCoversRange ==
    (wpc = "done" /\ use_time_intervals /\ ValidRange
        /\ time_interval_size >= year_end - year_start + 1) =>
        /\ Len(intervals) = 1
        /\ intervals[1] = intervalLabel(year_start, year_end)
        /\ Windows[1] = [start |-> year_start, end |-> year_end]

\* a range of six years planned with size ten
C21_Witness ==
    /\ wpc = "done" /\ use_time_intervals
    /\ year_start = 1960 /\ year_end = 1965 /\ time_interval_size = 10
    /\ intervals = << <<"1", "9", "6", "0", "-", "1", "9", "6", "5">> >>


\* C26: whenever searchResults is non-null, its chunks carry the distinct ids
\* 1..N in response order and selectedChunkIds is a duplicate-free list of
\* ids of chunks in searchResults, after any sequence of performSearch,
\* toggleChunkSelection on a displayed chunk, selectAllChunks and
\* deselectAllChunks; right after a successful search every chunk is selected.
C26_SelectionWithinResults ==
    searchResults # None =>
        LET cs == searchResults[1].chunks IN
        /\ \A i \in 1..Len(cs) : cs[i].id = i
        /\ \A i, j \in 1..Len(selectedChunkIds) :
               i # j => selectedChunkIds[i] # selectedChunkIds[j]
        /\ \A i \in 1..Len(selectedChunkIds) : \E j \in 1..Len(cs) : selectedChunkIds[i] = cs[j].id
        /\ lastOp = "performSearch:resolved" => selectedChunkIds = idsOf(cs)

\* two chunks found, the first deselected and selected again
C26_Witness ==
    /\ searchResults # None /\ Len(searchResults[1].chunks) = 2
    /\ lastOp = "toggleChunkSelection"
    /\ selectedChunkIds = <<2, 1>>


\* C27: the number shown beside each transferred source in the analysis panel
\* is the citation number that resolves to it: for every k in
\* 1..length(transferredChunks) exactly one source is displayed with number k,
\* and it is the chunk citation [k] links to.
C27_SourceNumberIsCitationNumber ==
    AnalysisFormShown =>
        LET shown == transferredSources(transferredChunks) IN
        \A k \in 1..Len(transferredChunks) :
            /\ Cardinality({index \in DOMAIN shown : shown[index].number = k}) = 1
            /\ \A index \in DOMAIN shown :
                   shown[index].number = k =>
                       resolveChunk(transferredChunks, k) = Some(shown[index].chunk)

\* the second of two found chunks transferred alone, and an answer citing [1]
\* displayed: source number 1 and citation [1] are the chunk with id 2
C27_Witness ==
    /\ AnswerShown
    /\ Len(transferredChunks) = 1 /\ transferredChunks[1].id = 2
    /\ \E i \in 1..Len(renderedAnswer) :
           /\ renderedAnswer[i].el # "text"
           /\ renderedAnswer[i].label = 1
           /\ renderedAnswer[i].shows = Some(transferredSources(transferredChunks)[0].chunk)


\* C28: for year_start <= year_end and size >= 1 the announced number of
\* intervals, ceil(span / size), is the length of the generated interval list.
C28_AnnouncedCountIsListLength ==
    (wpc = "done" /\ use_time_intervals /\ ValidRange) =>
        /\ calcResult[1].num_intervals = Len(calcResult[1].intervals)
        /\ calcResult[1].num_intervals = Len(intervals)

\* seventeen years in windows of five: four windows, the last of two years
C28_Witness ==
    /\ wpc = "done" /\ use_time_intervals
    /\ year_start = 1960 /\ year_end = 1976 /\ time_interval_size = 5
    /\ calcResult[1].num_intervals = 4
    /\ Len(intervals) = 4


\* ---- the store called without the components ----
\* C22: when performSearch is invoked again while an earlier request is still
\* outstanding, then once every request has settled searchResults and
\* selectedChunkIds are those of the search invoked last, whichever response
\* arrived first.
C22_LatestSearchWins ==
    (searchRequests = <<>> /\ latestSearch.settled /\ latestSearch.results # None) =>
        /\ searchResults = latestSearch.results
        /\ Range(selectedChunkIds) \subseteq Range(idsOf(latestSearch.results[1].chunks))

\* C23: isSearching is true in every state in which a performSearch request
\* has not settled, also when several overlap.
C23_SearchingWhileAnyOutstanding == searchRequests # <<>> => isSearching

\* C24: searchError and searchResults are never both non-null, whatever the
\* sequence and interleaving of performSearch calls and responses.
C24_SearchErrorExcludesResults == ~(searchError # None /\ searchResults # None)

\* C25: analysisError and analysisResult are never both non-null, whatever the
\* interleaving of performAnalysis, transferChunksForAnalysis and
\* performSearch calls and responses.
C25_AnalysisErrorExcludesResult == ~(analysisError # None /\ analysisResult # None)


====
